---------------------------- MODULE Spec2Model ----------------------------
(***************************************************************************)
(* A model of wstunnel's command line front end and client tunnel loop     *)
(* (src/src/main.rs).                                                      *)
(*                                                                         *)
(* Text is modelled as a sequence of one-character strings, so that the    *)
(* slicing, splitting and number parsing of the argument parsers is done   *)
(* character by character, as the Rust code does it.                       *)
(*                                                                         *)
(* Three state machines share the variables:                               *)
(*   SpecArg    : parse_tunnel_arg applied to one -L argument              *)
(*   SpecConfig : parse_server_url, then the construction of the client or *)
(*                server configuration in main, then tls_server_name       *)
(*   Spec       : main's start of one tunnel and run_tunnel's accept loop  *)
(*                with the orchestration tasks it spawns                   *)
(***************************************************************************)
EXTENDS Integers, Sequences, FiniteSets, TLC

VARIABLES
    arg,        \* SpecArg: the text given to -L
    argIn,      \* SpecArg: the parts the text was written from
    argBind,    \* SpecArg: what the parse_local_bind call inside returned
    argRes,     \* SpecArg: what parse_tunnel_arg returned
    url,        \* SpecConfig: the text given as server address
    cli,        \* SpecConfig: the other command line values
    urlRes,     \* SpecConfig: what parse_server_url returned
    config,     \* SpecConfig: the configuration record main built
    sni,        \* SpecConfig: what tls_server_name returned
    tunnel,     \* Spec: the LocalToRemote given to run_tunnel
    incoming,   \* Spec: items the adapter stream has ready, oldest first
    polled,     \* Spec: items run_tunnel's loop has taken from the stream
    loop,       \* Spec: "polling" | "returned"
    tasks       \* Spec: the orchestration tasks spawned, in spawn order

argVars == <<arg, argIn, argBind, argRes>>
cfgVars == <<url, cli, urlRes, config, sni>>
tunVars == <<tunnel, incoming, polled, loop, tasks>>
vars == <<arg, argIn, argBind, argRes, url, cli, urlRes, config, sni,
          tunnel, incoming, polled, loop, tasks>>

None == [tag |-> "None"]
Some(v) == [tag |-> "Some", val |-> v]
Ok(v) == [tag |-> "Ok", val |-> v]
Err(m) == [tag |-> "Err", msg |-> m]
Panic == [tag |-> "Panic"]
Pending == [tag |-> "Pending"]
NotCalled == [tag |-> "NotCalled"]
Idle == [tag |-> "Idle"]

---------------------------------------------------------------------------
(* Text helpers (str methods of the Rust standard library).                *)

Digits == {"0", "1", "2", "3", "4", "5", "6", "7", "8", "9"}

DigitVal(c) ==
    CASE c = "0" -> 0 [] c = "1" -> 1 [] c = "2" -> 2 [] c = "3" -> 3
      [] c = "4" -> 4 [] c = "5" -> 5 [] c = "6" -> 6 [] c = "7" -> 7
      [] c = "8" -> 8 [] c = "9" -> 9

DigitChar(d) ==
    CASE d = 0 -> "0" [] d = 1 -> "1" [] d = 2 -> "2" [] d = 3 -> "3"
      [] d = 4 -> "4" [] d = 5 -> "5" [] d = 6 -> "6" [] d = 7 -> "7"
      [] d = 8 -> "8" [] d = 9 -> "9"

HexDigits == Digits \cup {"a", "b", "c", "d", "e", "f"}

HexVal(c) ==
    CASE c \in Digits -> DigitVal(c)
      [] c = "a" -> 10 [] c = "b" -> 11 [] c = "c" -> 12
      [] c = "d" -> 13 [] c = "e" -> 14 [] c = "f" -> 15

Upper == {"W", "S"}
Lower == {"a", "b", "c", "d", "e", "f", "g", "h", "i", "k", "m", "o", "p",
          "r", "s", "t", "u", "w", "x", "y"}
Alpha == Upper \cup Lower

\* char::to_ascii_lowercase, on the letters the inputs use
ToLowerChar(c) == CASE c = "W" -> "w" [] c = "S" -> "s" [] OTHER -> c

ToLower(s) == [i \in 1..Len(s) |-> ToLowerChar(s[i])]

\* format!("{}", n) of an unsigned integer
RECURSIVE ToDecimal(_)
ToDecimal(n) ==
    IF n < 10 THEN <<DigitChar(n)>>
    ELSE Append(ToDecimal(n \div 10), DigitChar(n % 10))

StartsWith(s, p) == Len(s) >= Len(p) /\ SubSeq(s, 1, Len(p)) = p

\* the index of the first character of s that is in cs, 0 when there is none
IndexOf(s, cs) ==
    IF \E i \in 1..Len(s) : s[i] \in cs
    THEN CHOOSE i \in 1..Len(s) : s[i] \in cs /\ \A j \in 1..(i - 1) : s[j] \notin cs
    ELSE 0

\* the two sides of s around its character at i; None when i = 0
SplitAt(s, i) ==
    IF i = 0 THEN None
    ELSE Some(<<SubSeq(s, 1, i - 1), SubSeq(s, i + 1, Len(s))>>)

\* str::split_once with a char or a set of chars as pattern
split_once(s, cs) == SplitAt(s, IndexOf(s, cs))

\* Option::unwrap_or((s, "")) of a split_once result
SplitOr(sp, s) == IF sp = None THEN <<s, <<>>>> ELSE sp.val

\* str::trim_start_matches(c)
RECURSIVE trim_start_matches(_, _)
trim_start_matches(s, c) ==
    IF Len(s) > 0 /\ s[1] = c THEN trim_start_matches(Tail(s), c) ELSE s

\* str::split(c), collected: the pieces between the separators
RECURSIVE SplitAll(_, _)
SplitFrom(s, c, i) ==
    IF i = 0 THEN <<s>>
    ELSE <<SubSeq(s, 1, i - 1)>> \o SplitAll(SubSeq(s, i + 1, Len(s)), c)

SplitAll(s, c) == SplitFrom(s, c, IndexOf(s, {c}))

\* &s[..n] and &s[n..]: a slice index past the end of the text panics
SliceTo(s, n) == IF n > Len(s) THEN Panic ELSE Ok(SubSeq(s, 1, n))
SliceFrom(s, n) == IF n > Len(s) THEN Panic ELSE Ok(SubSeq(s, n + 1, Len(s)))

---------------------------------------------------------------------------
(* Number parsing (FromStr of the integer types).                          *)

U16Max == 65535
I32Max == 2147483647

AllDigits(s) == Len(s) > 0 /\ \A i \in 1..Len(s) : s[i] \in Digits

\* acc * 10 + d, saturating at cap + 1
DecStep(acc, d, cap) == IF acc > (cap - d) \div 10 THEN cap + 1 ELSE acc * 10 + d

\* the value of a digit string, saturating at cap + 1
RECURSIVE DecValue(_, _, _)
DecValue(s, acc, cap) ==
    IF s = <<>> THEN acc
    ELSE DecValue(Tail(s), DecStep(acc, DigitVal(Head(s)), cap), cap)

StripPlus(s) == IF Len(s) > 0 /\ s[1] = "+" THEN Tail(s) ELSE s
StripSign(s) == IF Len(s) > 0 /\ s[1] \in {"+", "-"} THEN Tail(s) ELSE s

InRange(v, max) == IF v > max THEN None ELSE Some(v)

U16Of(t) == IF ~AllDigits(t) THEN None ELSE InRange(DecValue(t, 0, U16Max), U16Max)

\* str::parse::<u16>: an optional '+', then digits, at most 65535
parse_u16(s) == U16Of(StripPlus(s))

RECURSIVE StripZeros(_)
StripZeros(s) == IF Len(s) > 1 /\ s[1] = "0" THEN StripZeros(Tail(s)) ELSE s

\* digit strings of the same length, compared as numbers
RECURSIVE DigitsLeq(_, _)
DigitsLeq(a, b) ==
    IF a = <<>> THEN TRUE
    ELSE IF DigitVal(a[1]) < DigitVal(b[1]) THEN TRUE
    ELSE IF DigitVal(a[1]) > DigitVal(b[1]) THEN FALSE
    ELSE DigitsLeq(Tail(a), Tail(b))

\* 2^64 - 1 = 18446744073709551615
U64MaxDigits == <<"1","8","4","4","6","7","4","4","0","7","3","7","0","9","5","5","1","6","1","5">>

U64InRange(c) ==
    IF Len(c) < Len(U64MaxDigits)
       \/ (Len(c) = Len(U64MaxDigits) /\ DigitsLeq(c, U64MaxDigits))
    THEN Some(c)
    ELSE None

U64Of(t) == IF ~AllDigits(t) THEN None ELSE U64InRange(StripZeros(t))

\* str::parse::<u64>: an optional '+', then digits, at most 2^64 - 1.  A u64
\* is kept as its decimal digits without leading zeros, which keeps its width.
parse_u64(s) == U64Of(StripPlus(s))

Signed(neg, v) == IF v = None THEN None ELSE Some(IF neg THEN 0 - v.val ELSE v.val)

I32Of(neg, t) ==
    IF ~AllDigits(t) THEN None
    ELSE Signed(neg, InRange(DecValue(t, 0, I32Max - 1), I32Max - 1))

\* str::parse::<i32>: an optional sign, then digits, within the i32 range.
\* Values are kept as integers; the extreme values 2^31 - 1, -(2^31 - 1) and
\* -2^31 are outside what the model's integers can saturate past and count as
\* out of range (no input used here has them).
parse_i32(s) == I32Of(Len(s) > 0 /\ s[1] = "-", StripSign(s))

---------------------------------------------------------------------------
(* IP address literals (FromStr of std::net::Ipv4Addr and Ipv6Addr).       *)

\* one decimal octet: 1 to 3 digits, no leading zero, at most 255
OctetOk(p) ==
    /\ Len(p) \in 1..3
    /\ AllDigits(p)
    /\ (Len(p) > 1 => p[1] # "0")
    /\ DecValue(p, 0, 255) <= 255

Ipv4Of(ps) ==
    IF Len(ps) = 4 /\ \A i \in 1..4 : OctetOk(ps[i])
    THEN Some([i \in 1..4 |-> DecValue(ps[i], 0, 255)])
    ELSE None

\* Ipv4Addr::from_str: exactly four octets separated by dots
Ipv4Addr_from_str(s) == Ipv4Of(SplitAll(s, "."))

RECURSIVE HexValue(_, _)
HexValue(s, acc) ==
    IF s = <<>> THEN acc ELSE HexValue(Tail(s), acc * 16 + HexVal(Head(s)))

GroupOk(g) == Len(g) \in 1..4 /\ \A i \in 1..Len(g) : g[i] \in HexDigits

Groups(s) == IF s = <<>> THEN <<>> ELSE SplitAll(s, ":")

\* the index of the first "::" of s, 0 when there is none
DoubleColon(s) ==
    IF \E i \in 1..(Len(s) - 1) : s[i] = ":" /\ s[i + 1] = ":"
    THEN CHOOSE i \in 1..(Len(s) - 1) :
            /\ s[i] = ":" /\ s[i + 1] = ":"
            /\ \A j \in 1..(i - 1) : ~(s[j] = ":" /\ s[j + 1] = ":")
    ELSE 0

\* eight groups written out
Ipv6Full(gs) ==
    IF Len(gs) = 8 /\ \A i \in 1..8 : GroupOk(gs[i])
    THEN Some([i \in 1..8 |-> HexValue(gs[i], 0)])
    ELSE None

\* the groups l before and r after a "::", which stands for the zeros between
Ipv6Short(l, r) ==
    IF Len(l) + Len(r) <= 7
       /\ (\A i \in 1..Len(l) : GroupOk(l[i]))
       /\ (\A i \in 1..Len(r) : GroupOk(r[i]))
    THEN Some([i \in 1..8 |->
                 IF i <= Len(l) THEN HexValue(l[i], 0)
                 ELSE IF i <= 8 - Len(r) THEN 0
                 ELSE HexValue(r[i - (8 - Len(r))], 0)])
    ELSE None

Ipv6At(s, k) ==
    IF k = 0 THEN Ipv6Full(Groups(s))
    ELSE Ipv6Short(Groups(SubSeq(s, 1, k - 1)), Groups(SubSeq(s, k + 2, Len(s))))

\* Ipv6Addr::from_str for the textual forms without an embedded IPv4 part:
\* eight groups of hex digits, or fewer with one "::" standing for the zeros
Ipv6Addr_from_str(s) == Ipv6At(s, DoubleColon(s))

V4(a) == [v |-> 4, a |-> a]
V6(a) == [v |-> 6, a |-> a]
SocketAddr(ip, port) == [ip |-> ip, port |-> port]

---------------------------------------------------------------------------
(* url::Url::parse and the accessors main.rs uses, for texts of the form   *)
(* scheme://host[:port][?query] (no user info, path, fragment or percent   *)
(* escapes: the inputs below contain none of '@', '/', '#', '%' after the  *)
(* scheme's slashes).                                                      *)

Domain(name) == [kind |-> "Domain", name |-> name]
Ipv4(a) == [kind |-> "Ipv4", a |-> a]
Ipv6(a) == [kind |-> "Ipv6", a |-> a]

T_ws == <<"w", "s">>
T_wss == <<"w", "s", "s">>
T_http == <<"h", "t", "t", "p">>
T_https == <<"h", "t", "t", "p", "s">>
T_fake == <<"f", "a", "k", "e">>

SpecialSchemes == {T_ws, T_wss, T_http, T_https}

\* the scheme's well known port
DefaultPort(scheme) ==
    CASE scheme \in {T_ws, T_http} -> Some(80)
      [] scheme \in {T_wss, T_https} -> Some(443)
      [] OTHER -> None

ForbiddenHostChars ==
    {" ", "#", "/", ":", "<", ">", "?", "@", "[", "\\", "]", "^", "|", "%"}

SchemeOk(t) ==
    /\ Len(t) > 0
    /\ t[1] \in Alpha
    /\ \A i \in 1..Len(t) : t[i] \in Alpha \cup Digits \cup {"+", "-", "."}

V4Host(ip) == IF ip = None THEN None ELSE Some(Ipv4(ip.val))
V6Host(ip) == IF ip = None THEN None ELSE Some(Ipv6(ip.val))

LastOf(seq) == seq[Len(seq)]

SpecialHostOf(low) ==
    IF low = <<>> \/ \E i \in 1..Len(low) : low[i] \in ForbiddenHostChars
    THEN None
    ELSE IF AllDigits(LastOf(SplitAll(low, ".")))
    THEN V4Host(Ipv4Addr_from_str(low))
    ELSE Some(Domain(low))

\* the host of a special scheme's URL: an IPv4 address when its last label is
\* a number (taken here in the four decimal octets form only), else a
\* lower-cased domain
SpecialHost(t) == SpecialHostOf(ToLower(t))

\* the host of any other scheme's URL: kept as written (an opaque host)
OpaqueHost(t) ==
    IF \E i \in 1..Len(t) : t[i] \in ForbiddenHostChars
    THEN None
    ELSE Some(Domain(t))

TextBefore(s, i) == IF i = 0 THEN s ELSE SubSeq(s, 1, i - 1)

\* the host's text in an authority: up to the ']' of a bracketed address,
\* else up to the first ':'
HostText(auth) ==
    IF StartsWith(auth, <<"[">>)
    THEN SubSeq(auth, 1, IndexOf(auth, {"]"}))
    ELSE TextBefore(auth, IndexOf(auth, {":"}))

\* Some(host), Some(None) for the empty host of a non-special scheme, or None
\* when the host is invalid
ParseHost(auth, hostText, special) ==
    IF StartsWith(auth, <<"[">>)
    THEN IF hostText = <<>> THEN None
         ELSE V6Host(Ipv6Addr_from_str(SubSeq(hostText, 2, Len(hostText) - 1)))
    ELSE IF special THEN SpecialHost(hostText)
    ELSE IF hostText = <<>> THEN Some(None)
    ELSE OpaqueHost(hostText)

\* rest is what follows the host in the authority: nothing, or ":port"
HostPortOf(host, rest) ==
    LET portText == IF rest = <<>> THEN <<>> ELSE Tail(rest)
    IN  IF rest # <<>> /\ rest[1] # ":" THEN None
        ELSE IF portText # <<>> /\ ~AllDigits(portText) THEN None
        ELSE IF portText # <<>> /\ DecValue(portText, 0, U16Max) > U16Max THEN None
        ELSE IF host = None THEN None
        ELSE IF host.val = None /\ rest # <<>> THEN None
        ELSE Some([host |-> host.val,
                   port |-> IF portText = <<>> THEN None
                            ELSE Some(DecValue(portText, 0, U16Max))])

HostPortAt(auth, special, hostText) ==
    HostPortOf(ParseHost(auth, hostText, special),
               SubSeq(auth, Len(hostText) + 1, Len(auth)))

\* the host and port of an authority; None when the URL is invalid
HostPort(auth, special) == HostPortAt(auth, special, HostText(auth))

UrlMake(scheme, hp, tail) ==
    IF hp = None THEN Err("invalid url")
    ELSE Ok([scheme |-> scheme,
             host |-> IF hp.val.host = None THEN None ELSE Some(hp.val.host),
             port |-> IF hp.val.port = DefaultPort(scheme) THEN None
                      ELSE hp.val.port,
             query |-> IF tail # <<>> /\ tail[1] = "?" THEN Some(Tail(tail))
                       ELSE None])

\* body is the URL after the slashes; its authority ends at stop
UrlParts(scheme, special, body, stop) ==
    UrlMake(scheme,
            HostPort(TextBefore(body, stop), special),
            IF stop = 0 THEN <<>> ELSE SubSeq(body, stop, Len(body)))

UrlAuthority(scheme, special, body) ==
    UrlParts(scheme, special, body, IndexOf(body, {"/", "?", "#"}))

\* after is the URL after "scheme:"
UrlBody(scheme, special, after) ==
    IF ~special /\ ~StartsWith(after, <<"/", "/">>)
    THEN Ok([scheme |-> scheme, host |-> None, port |-> None, query |-> None])
    ELSE UrlAuthority(scheme, special,
                      IF special THEN trim_start_matches(after, "/")
                      ELSE SubSeq(after, 3, Len(after)))

UrlScheme(s, colon) ==
    IF colon = 0 \/ ~SchemeOk(SubSeq(s, 1, colon - 1)) THEN Err("invalid url")
    ELSE UrlBody(ToLower(SubSeq(s, 1, colon - 1)),
                 ToLower(SubSeq(s, 1, colon - 1)) \in SpecialSchemes,
                 SubSeq(s, colon + 1, Len(s)))

\* Url::parse: Ok([scheme, host, port, query]) or Err
Url_parse(s) == UrlScheme(s, IndexOf(s, {":"}))

\* Url::port_or_known_default
port_or_known_default(u) ==
    IF u.port # None THEN u.port ELSE DefaultPort(u.scheme)

PlusToSpace(piece) == [i \in 1..Len(piece) |-> IF piece[i] = "+" THEN " " ELSE piece[i]]

PairAt(dec, eq) ==
    IF eq = 0 THEN <<dec, <<>>>>
    ELSE <<SubSeq(dec, 1, eq - 1), SubSeq(dec, eq + 1, Len(dec))>>

PairOf(dec) == PairAt(dec, IndexOf(dec, {"="}))

\* one "name=value" piece of a query: '+' stands for a space
QueryPair(piece) == PairOf(PlusToSpace(piece))

NonEmpty(x) == x # <<>>

PairsOf(pieces) == [i \in 1..Len(pieces) |-> QueryPair(pieces[i])]

\* Url::query_pairs: the pairs of the query in order, empty pieces skipped
query_pairs(u) ==
    IF u.query = None THEN <<>>
    ELSE PairsOf(SelectSeq(SplitAll(u.query.val, "&"), NonEmpty))

\* collect() into a BTreeMap<String, String>: a later pair replaces an earlier
\* one with the same name.  The map is a function from the names to the values.
BTreeMap_collect(pairs) ==
    [n \in {pairs[i][1] : i \in 1..Len(pairs)} |->
        pairs[CHOOSE i \in 1..Len(pairs) :
                 pairs[i][1] = n /\ \A j \in (i + 1)..Len(pairs) : pairs[j][1] # n][2]]

\* BTreeMap::get
Get(map, key) == IF key \in DOMAIN map THEN Some(map[key]) ELSE None

---------------------------------------------------------------------------
(* The argument parsers of main.rs.                                        *)

T_tcp == <<"t", "c", "p", ":", "/", "/">>
T_udp == <<"u", "d", "p", ":", "/", "/">>
T_socks5 == <<"s", "o", "c", "k", "s", "5", ":", "/">>
T_stdio == <<"s", "t", "d", "i", "o", ":", "/", "/">>
T_fakeUrl == <<"f", "a", "k", "e", ":", "/", "/">>
T_socksDest == <<"0", ".", "0", ".", "0", ".", "0", ":", "0", "?">>
T_localhost == <<"1", "2", "7", ".", "0", ".", "0", ".", "1">>
K_socket_so_mark == <<"s", "o", "c", "k", "e", "t", "_", "s", "o", "_", "m", "a", "r", "k">>
K_timeout_sec == <<"t", "i", "m", "e", "o", "u", "t", "_", "s", "e", "c">>

\* Duration::from_secs(30), the UDP timeout when no timeout_sec is given
DefaultUdpTimeout == <<"3", "0">>

LocalBindResult(bind, bind_port, rest) ==
    IF bind_port = None THEN Err("cannot parse bind port")
    ELSE Ok(<<SocketAddr(bind, bind_port.val), rest>>)

\* pr is (port_str, remaining)
LocalBindParsed(bind, pr) == LocalBindResult(bind, parse_u16(pr[1]), pr[2])

LocalBindSplit(bind, remaining) ==
    LocalBindParsed(bind, SplitOr(split_once(remaining, {":", "?"}), remaining))

\* LocalBindPort without the trim of the colons before the port
LocalBindPort_NoTrim(br) ==
    IF br.tag = "Err" THEN br ELSE LocalBindSplit(br.val[1], br.val[2])

\* the end of parse_local_bind, from the trim of the colons on: br is the
\* (bind, remaining) of its first statement, or the error it returned
LocalBindPort(br) ==
    IF br.tag = "Err" THEN br
    ELSE LocalBindSplit(br.val[1], trim_start_matches(br.val[2], ":"))

BindV6Addr(ipv6_addr, remaining) ==
    IF ipv6_addr = None THEN Err("cannot parse IPv6 bind")
    ELSE Ok(<<V6(ipv6_addr.val), remaining>>)

\* sp is arg.split_once(']')
BindV6(sp) ==
    IF sp = None THEN Err("cannot parse IPv6 bind")
    ELSE BindV6Addr(Ipv6Addr_from_str(Tail(sp.val[1])), sp.val[2])

BindV4Addr(a, ip4_addr, remaining) ==
    IF ip4_addr # None THEN Ok(<<V4(ip4_addr.val), remaining>>)
    ELSE \* must be the port: the default bind, and the whole text again
         Ok(<<V4(Ipv4Addr_from_str(T_localhost).val), a>>)

\* sp is arg.split_once(':')
BindV4(a, sp) ==
    IF sp = None THEN Err("cannot parse IPv4 bind")
    ELSE BindV4Addr(a, Ipv4Addr_from_str(sp.val[1]), sp.val[2])

\* the first statement of parse_local_bind: (bind, remaining), or the error
LocalBindAddr(a) ==
    IF StartsWith(a, <<"[">>) THEN BindV6(split_once(a, {"]"}))
    ELSE BindV4(a, split_once(a, {":"}))

parse_local_bind(a) == LocalBindPort(LocalBindAddr(a))

DestOf(remote) ==
    IF remote.tag = "Err" THEN Err("cannot parse remote")
    ELSE IF remote.val.host = None THEN Err("cannot parse remote host")
    ELSE IF remote.val.port = None THEN Err("cannot parse remote port")
    ELSE Ok([host |-> remote.val.host.val,
             port |-> remote.val.port.val,
             options |-> BTreeMap_collect(query_pairs(remote.val))])

parse_tunnel_dest(remaining) == DestOf(Url_parse(T_fakeUrl \o remaining))

\* Option<&String>::and_then(|x| x.parse::<i32>().ok())
AndThenI32(x) == IF x = None THEN None ELSE parse_i32(x.val)
AndThenU64(x) == IF x = None THEN None ELSE parse_u64(x.val)

\* options.get("socket_so_mark").and_then(|x| x.parse::<i32>().ok())
SoMarkOf(options) == AndThenI32(Get(options, K_socket_so_mark))

\* UdpTimeoutOf without the special case of 0
UdpTimeoutOf_ZeroKept(options) ==
    LET d == AndThenU64(Get(options, K_timeout_sec))
    IN  IF d = None THEN Some(DefaultUdpTimeout) ELSE Some(d.val)

\* the timeout of a udp tunnel: None means no timeout
UdpTimeoutOf(options) ==
    LET d == AndThenU64(Get(options, K_timeout_sec))
    IN  IF d = None THEN Some(DefaultUdpTimeout)
        ELSE IF d.val = <<"0">> THEN None
        ELSE Some(d.val)

LocalToRemote(mark, proto, local, dest) ==
    [socket_so_mark |-> mark, local_protocol |-> proto, local |-> local,
     remote |-> <<dest.host, dest.port>>]

Tcp == [kind |-> "Tcp"]
Udp(timeout) == [kind |-> "Udp", timeout |-> timeout]
Socks5 == [kind |-> "Socks5"]
Stdio == [kind |-> "Stdio"]

\* the offset at which the socks5 branch cuts the argument
Socks5Offset == 9

\* the LocalToRemote of every branch, from the parsed destination d
TunnelOf(proto, local, d) ==
    IF d.tag = "Err" THEN d
    ELSE Ok(LocalToRemote(SoMarkOf(d.val.options), proto, local, d.val))

UdpTunnelOf(local, d) ==
    IF d.tag = "Err" THEN d
    ELSE TunnelOf(Udp(UdpTimeoutOf(d.val.options)), local, d)

TcpDest(lb) ==
    IF lb.tag = "Err" THEN lb
    ELSE TunnelOf(Tcp, lb.val[1], parse_tunnel_dest(lb.val[2]))

UdpDest(lb) ==
    IF lb.tag = "Err" THEN lb
    ELSE UdpTunnelOf(lb.val[1], parse_tunnel_dest(lb.val[2]))

TcpArg(a) == TcpDest(parse_local_bind(SubSeq(a, 7, Len(a))))

UdpArg(a) == UdpDest(parse_local_bind(SubSeq(a, 7, Len(a))))

Socks5Dest(lb) ==
    IF lb.tag = "Err" THEN lb
    ELSE TunnelOf(Socks5, lb.val[1], parse_tunnel_dest(T_socksDest \o lb.val[2]))

Socks5Cut(cut) ==
    IF cut = Panic THEN Panic ELSE Socks5Dest(parse_local_bind(cut.val))

\* Socks5Arg, cutting one character further
Socks5Arg_SkipOne(a) == Socks5Cut(SliceFrom(a, Socks5Offset + 1))

Socks5Arg(a) == Socks5Cut(SliceFrom(a, Socks5Offset))

StdioArg(a) ==
    TunnelOf(Stdio, SocketAddr(V4(<<0, 0, 0, 0>>), 0),
             parse_tunnel_dest(SubSeq(a, 9, Len(a))))

parse_tunnel_arg(a) ==
    LET p6 == SliceTo(a, 6)
        p8 == SliceTo(a, 8)
    IN  IF p6 = Panic THEN Panic
        ELSE IF p6.val = T_tcp THEN TcpArg(a)
        ELSE IF p6.val = T_udp THEN UdpArg(a)
        ELSE IF p8 = Panic THEN Panic
        ELSE IF p8.val = T_socks5 THEN Socks5Arg(a)
        ELSE IF p8.val = T_stdio THEN StdioArg(a)
        ELSE Err("Invalid local protocol for tunnel")

\* the parse_local_bind call parse_tunnel_arg makes for a, if it makes one
local_bind_call(a) ==
    IF Len(a) >= 6 /\ SubSeq(a, 1, 6) \in {T_tcp, T_udp}
    THEN parse_local_bind(SubSeq(a, 7, Len(a)))
    ELSE IF Len(a) >= Socks5Offset /\ SubSeq(a, 1, 8) = T_socks5
    THEN parse_local_bind(SubSeq(a, Socks5Offset + 1, Len(a)))
    ELSE NotCalled

---------------------------------------------------------------------------
(* SpecArg: one -L argument, written from its parts, is parsed.            *)

\* timeout_sec values 0..MaxTimeoutSec are written out in decimal
MaxTimeoutSec == 3

T_slashes == <<":", "/", "/">>
T_2pow64 == <<"1","8","4","4","6","7","4","4","0","7","3","7","0","9","5","5","1","6","1","6">>

\* the local bind addresses written: none, IPv4, bracketed IPv6.  Each has the
\* text written and the address meant.
BindForms ==
    { [kind |-> "none", text |-> <<>>, ip |-> V4(<<127, 0, 0, 1>>)],
      [kind |-> "v4", text |-> <<"1", "0", ".", "0", ".", "0", ".", "2", ":">>,
       ip |-> V4(<<10, 0, 0, 2>>)],
      [kind |-> "v6", text |-> <<"[", ":", ":", "1", "]", ":">>,
       ip |-> V6(<<0, 0, 0, 0, 0, 0, 0, 1>>)],
      [kind |-> "v6", text |-> <<"[", "f", "e", "8", "0", ":", ":", "a", ":", "1", "]", ":">>,
       ip |-> V6(<<65152, 0, 0, 0, 0, 0, 10, 1>>)] }

LocalPorts == {1, 1212, 65535}
BadLocalPorts == {65536}

\* the remote hosts written, with the Host meant
HostForms ==
    { [text |-> <<"g", ".", "c">>, host |-> Domain(<<"g", ".", "c">>)],
      [text |-> <<"1", ".", "1", ".", "1", ".", "1">>,
       host |-> Domain(<<"1", ".", "1", ".", "1", ".", "1">>)],
      [text |-> <<"[", ":", ":", "2", "]">>, host |-> Ipv6(<<0, 0, 0, 0, 0, 0, 0, 2>>)] }

RemotePorts == {0, 53, 65535}
BadRemotePorts == {65536}

\* what is written for timeout_sec: nothing, a number, the largest u64, or a
\* text that is no u64
TimeoutForms ==
    {[tag |-> "Absent"]}
    \cup {[tag |-> "Num", n |-> n, text |-> ToDecimal(n)] : n \in 0..MaxTimeoutSec}
    \cup {[tag |-> "Big", text |-> U64MaxDigits]}
    \cup {[tag |-> "Raw", text |-> t] : t \in {<<"x">>, T_2pow64, <<>>}}

MarkForms == {None, Some(2)}

OptForms ==
    {[timeout |-> t, mark |-> m, other |-> o] :
        t \in TimeoutForms, m \in MarkForms, o \in BOOLEAN}

RECURSIVE Join(_, _)
Join(pieces, sep) ==
    IF pieces = <<>> THEN <<>>
    ELSE IF Len(pieces) = 1 THEN pieces[1]
    ELSE pieces[1] \o sep \o Join(Tail(pieces), sep)

\* "?name=value&..." as the user writes it, nothing when no option is given
OptText(o) ==
    LET pieces ==
            (IF o.other THEN << <<"x", "=", "1">> >> ELSE <<>>)
            \o (IF o.timeout.tag = "Absent" THEN <<>>
                ELSE << K_timeout_sec \o <<"=">> \o o.timeout.text >>)
            \o (IF o.mark = None THEN <<>>
                ELSE << K_socket_so_mark \o <<"=">> \o ToDecimal(o.mark.val) >>)
    IN  IF pieces = <<>> THEN <<>> ELSE <<"?">> \o Join(pieces, <<"&">>)

DestText(i) == i.host.text \o <<":">> \o ToDecimal(i.rport) \o OptText(i.opts)

\* the argument as written from its parts
Render(i) ==
    CASE i.form = "raw" -> i.text
      [] i.form \in {"tcp", "udp"} ->
            (IF i.form = "tcp" THEN T_tcp ELSE T_udp)
            \o i.bind.text \o ToDecimal(i.lport) \o <<":">> \o DestText(i)
      [] i.form = "socks5" ->
            T_socks5 \o <<"/">> \o i.bind.text \o ToDecimal(i.lport) \o OptText(i.opts)
      [] i.form = "stdio" -> T_stdio \o DestText(i)

NoOpts == [timeout |-> [tag |-> "Absent"], mark |-> None, other |-> FALSE]

\* texts that are no tunnel spec: too short, or of another scheme
RawArgs ==
    { <<>>, <<"t", "c", "p">>, <<"t", "c", "p", ":", "/">>, T_tcp, T_socks5,
      T_socks5 \o <<"/">>, <<"s", "t", "d", "i", "o", ":", "/">>, T_stdio,
      <<"h", "t", "t", "p", ":", "/", "/", "g", ":", "1">>,
      <<"u", "d", "p", ":", "1", "2", "1">>,
      T_socks5 \o <<"1", "2", "1", "2">>,
      T_socks5 \o <<"X", "1", "0", ".", "0", ".", "0", ".", "2", ":", "1", "2", "1", "2">> }

ArgInputs ==
    {[form |-> f, bind |-> b, lport |-> lp, host |-> h, rport |-> rp, opts |-> o] :
        f \in {"tcp", "udp"}, b \in BindForms, lp \in LocalPorts \cup BadLocalPorts,
        h \in HostForms, rp \in RemotePorts \cup BadRemotePorts, o \in OptForms}
    \cup {[form |-> "socks5", bind |-> b, lport |-> lp, opts |-> o] :
        b \in BindForms, lp \in LocalPorts \cup BadLocalPorts,
        o \in {x \in OptForms : x.timeout.tag = "Absent"}}
    \cup {[form |-> "stdio", host |-> h, rport |-> rp, opts |-> NoOpts] :
        h \in HostForms, rp \in RemotePorts \cup BadRemotePorts}
    \cup {[form |-> "raw", text |-> t] : t \in RawArgs}

ArgInit ==
    /\ argIn \in ArgInputs
    /\ arg = Render(argIn)
    /\ argBind = Pending
    /\ argRes = Pending
    /\ url = Idle /\ cli = Idle /\ urlRes = Idle /\ config = Idle /\ sni = Idle
    /\ tunnel = Idle /\ incoming = <<>> /\ polled = <<>> /\ loop = "idle"
    /\ tasks = <<>>

\* clap calls the value parser on the argument
ParseArg ==
    /\ argRes = Pending
    /\ argBind' = local_bind_call(arg)
    /\ argRes' = parse_tunnel_arg(arg)
    /\ UNCHANGED <<arg, argIn, cfgVars, tunVars>>

ArgNext == ParseArg

SpecArg == ArgInit /\ [][ArgNext]_vars

---------------------------------------------------------------------------
(* The server address, the configuration records and the TLS server name.  *)

\* rustls DnsName::try_from: labels of letters, digits, '-' and '_' separated
\* by dots; no empty label, none that starts or ends with '-'; the last
\* label is not a number.  TRUE when the name is accepted.
DnsLabelOk(l) ==
    /\ Len(l) \in 1..63
    /\ \A i \in 1..Len(l) : l[i] \in Alpha \cup Digits \cup {"-", "_"}
    /\ l[1] # "-"
    /\ l[Len(l)] # "-"

DnsLabelsOk(ls) ==
    /\ \A i \in 1..Len(ls) : DnsLabelOk(ls[i])
    /\ ~AllDigits(LastOf(ls))

DnsName_valid(name) ==
    /\ Len(name) \in 1..253
    /\ DnsLabelsOk(SplitAll(IF LastOf(name) = "." THEN SubSeq(name, 1, Len(name) - 1)
                            ELSE name, "."))

\* parse_sni_override, the value parser of --tls-sni-override
parse_sni_override(a) ==
    IF DnsName_valid(a) THEN Ok(a) ELSE Err("Invalid sni override")

ServerUrlChecked(u) ==
    IF u.tag = "Err" THEN Err("cannot parse server url")
    ELSE IF u.val.scheme # T_ws /\ u.val.scheme # T_wss THEN Err("invalid scheme")
    ELSE IF u.val.host = None THEN Err("invalid server host")
    ELSE u

parse_server_url(a) == ServerUrlChecked(Url_parse(a))

TlsClientConfig(sni_override, verify) ==
    [tls_sni_override |-> sni_override, tls_verify_certificate |-> verify]

\* main's choice of the client's TLS settings, with "ws" and "wss" confused
ClientTls_Swapped(u, args) ==
    CASE u.scheme = T_wss -> Ok(None)
      [] u.scheme = T_ws ->
            Ok(Some(TlsClientConfig(args.tls_sni_override, args.tls_verify_certificate)))
      [] OTHER -> Panic

\* main's choice of the client's TLS settings from the URL's scheme
ClientTls(u, args) ==
    CASE u.scheme = T_ws -> Ok(None)
      [] u.scheme = T_wss ->
            Ok(Some(TlsClientConfig(args.tls_sni_override, args.tls_verify_certificate)))
      [] OTHER -> Panic

\* Option::unwrap
Unwrap(o) == IF o = None THEN Panic ELSE Ok(o.val)

WsClientConfigOf(tls, host, port, args) ==
    IF tls = Panic \/ host = Panic \/ port = Panic THEN Panic
    ELSE [kind |-> "WsClientConfig",
          remote_addr |-> <<host.val, port.val>>,
          tls |-> tls.val,
          http_upgrade_path_prefix |-> args.http_upgrade_path_prefix]

\* main, Commands::Client: the WsClientConfig built from the arguments (the
\* fields kept are those the tunnel's address, TLS and upgrade path rest on)
WsClientConfig(u, args) ==
    WsClientConfigOf(ClientTls(u, args), Unwrap(u.host),
                     Unwrap(port_or_known_default(u)), args)

DefaultServerPort == 8080

\* Url::socket_addrs(|| Some(8080)): the port is the URL's, else the scheme's
\* well known one, else the default given
SocketAddrsPort(known) == IF known # None THEN known ELSE Some(DefaultServerPort)

\* what resolving the URL's host can give: the literal itself, and for a
\* domain either an address or a failure
Resolutions(host) ==
    CASE host.kind = "Ipv4" -> {Some(V4(host.a))}
      [] host.kind = "Ipv6" -> {Some(V6(host.a))}
      [] host.kind = "Domain" -> {Some(V4(<<192, 0, 2, 1>>)), None}

WsServerConfigOf(u, ip, port) ==
    IF ip = None THEN Panic
    ELSE [kind |-> "WsServerConfig",
          bind |-> SocketAddr(ip.val, port.val),
          tls |-> u.scheme = T_wss]

\* main, Commands::Server: the WsServerConfig, ip being what the host
\* resolved to
WsServerConfig(u, ip) ==
    WsServerConfigOf(u, ip, SocketAddrsPort(port_or_known_default(u)))

websocket_scheme(c) == IF c.tls = None THEN T_ws ELSE T_wss

DnsNameOf(name) == [kind |-> "DnsName", name |-> name]
IpAddress(ip) == [kind |-> "IpAddress", ip |-> ip]

\* ServerName::DnsName(DnsName::try_from(domain).unwrap())
DnsNameUnwrap(domain) ==
    IF DnsName_valid(domain) THEN DnsNameOf(domain) ELSE Panic

ServerNameOf(sni_override, host) ==
    IF sni_override # None THEN DnsNameOf(sni_override.val)
    ELSE CASE host.kind = "Domain" -> DnsNameUnwrap(host.name)
           [] host.kind = "Ipv4" -> IpAddress(V4(host.a))
           [] host.kind = "Ipv6" -> IpAddress(V6(host.a))

\* self.tls.as_ref().and_then(|tls| tls.tls_sni_override.as_ref())
SniOverrideOf(c) == IF c.tls = None THEN None ELSE c.tls.val.tls_sni_override

tls_server_name(c) == ServerNameOf(SniOverrideOf(c), c.remote_addr[1])

---------------------------------------------------------------------------
(* SpecConfig: a server address is parsed and the configuration built.     *)

T_morille == <<"m", "o", "r", "i", "l", "l", "e">>

\* the schemes written, with the scheme meant
SchemeForms ==
    { [text |-> T_ws, name |-> T_ws], [text |-> T_wss, name |-> T_wss],
      [text |-> <<"W", "S", "S">>, name |-> T_wss],
      [text |-> T_http, name |-> T_http], [text |-> T_https, name |-> T_https],
      [text |-> <<"t", "c", "p">>, name |-> <<"t", "c", "p">>] }

\* the hosts written, with the Host meant
UrlHostForms ==
    { [text |-> <<"a", ".", "b">>, host |-> Domain(<<"a", ".", "b">>)],
      [text |-> <<"a", "-", ".", "b">>, host |-> Domain(<<"a", "-", ".", "b">>)],
      [text |-> <<"a", "!", "b">>, host |-> Domain(<<"a", "!", "b">>)],
      [text |-> <<"1", "0", ".", "0", ".", "0", ".", "2">>, host |-> Ipv4(<<10, 0, 0, 2>>)],
      [text |-> <<"[", ":", ":", "1", "]">>, host |-> Ipv6(<<0, 0, 0, 0, 0, 0, 0, 1>>)],
      [text |-> <<>>, host |-> None] }

\* the ports written: none, or a number
UrlPortForms == {None} \cup {Some(n) : n \in {0, 80, 443, 8080, 65535, 65536}}

PortText(p) == IF p = None THEN <<>> ELSE <<":">> \o ToDecimal(p.val)

UrlText(u) == u.scheme.text \o T_slashes \o u.host.text \o PortText(u.port)

SniForms == {None, Some(<<"x", ".", "y">>)}

\* the --http-upgrade-path-prefix values: the default, and values with slashes
PrefixForms == {T_morille, <<"a", "/", "b">>, <<"/">>}

CliInputs ==
    {[cmd |-> c, url |-> [scheme |-> s, host |-> h, port |-> p],
      tls_sni_override |-> o, tls_verify_certificate |-> v,
      http_upgrade_path_prefix |-> x] :
        c \in {"client", "server"}, s \in SchemeForms, h \in UrlHostForms,
        p \in UrlPortForms, o \in SniForms, v \in BOOLEAN, x \in PrefixForms}

ConfigInit ==
    /\ cli \in CliInputs
    /\ cli.tls_sni_override # None =>
          parse_sni_override(cli.tls_sni_override.val).tag = "Ok"
    /\ url = UrlText(cli.url)
    /\ urlRes = Pending /\ config = Pending /\ sni = Pending
    /\ arg = Idle /\ argIn = Idle /\ argBind = Idle /\ argRes = Idle
    /\ tunnel = Idle /\ incoming = <<>> /\ polled = <<>> /\ loop = "idle"
    /\ tasks = <<>>

\* clap calls the value parser on the server address
ParseServerUrl ==
    /\ urlRes = Pending
    /\ urlRes' = parse_server_url(url)
    /\ UNCHANGED <<url, cli, config, sni, argVars, tunVars>>

BuildClientConfig ==
    /\ cli.cmd = "client" /\ urlRes.tag = "Ok" /\ config = Pending
    /\ config' = WsClientConfig(urlRes.val, cli)
    /\ UNCHANGED <<url, cli, urlRes, sni, argVars, tunVars>>

BuildServerConfig ==
    /\ cli.cmd = "server" /\ urlRes.tag = "Ok" /\ config = Pending
    /\ \E ip \in Resolutions(urlRes.val.host.val) :
          config' = WsServerConfig(urlRes.val, ip)
    /\ UNCHANGED <<url, cli, urlRes, sni, argVars, tunVars>>

\* a flow's TLS handshake asks the configuration for the server name
TlsServerName ==
    /\ config # Pending /\ config # Panic /\ config.kind = "WsClientConfig"
    /\ config.tls # None
    /\ sni = Pending
    /\ sni' = tls_server_name(config)
    /\ UNCHANGED <<url, cli, urlRes, config, argVars, tunVars>>

ConfigNext ==
    \/ ParseServerUrl
    \/ BuildClientConfig
    \/ BuildServerConfig
    \/ TlsServerName

SpecConfig == ConfigInit /\ [][ConfigNext]_vars

---------------------------------------------------------------------------
(* Spec: main starts one tunnel; run_tunnel takes the flows of its adapter  *)
(* stream and spawns one orchestration task per flow.                      *)

\* the adapter yields at most MaxFlows items in a run
MaxFlows == 3

H_gc == Domain(<<"g", ".", "c">>)
H_socks == Domain(<<"0", ".", "0", ".", "0", ".", "0">>)
A_local == SocketAddr(V4(<<127, 0, 0, 1>>), 1212)

\* the tunnels of the command line, as parse_tunnel_arg returns them
TunnelConfigs ==
    { LocalToRemote(None, Tcp, A_local, [host |-> H_gc, port |-> 443]),
      LocalToRemote(Some(2), Udp(Some(DefaultUdpTimeout)), A_local,
                    [host |-> H_gc, port |-> 53]),
      LocalToRemote(None, Socks5, A_local, [host |-> H_socks, port |-> 0]),
      LocalToRemote(None, Stdio, SocketAddr(V4(<<0, 0, 0, 0>>), 0),
                    [host |-> H_gc, port |-> 22]) }

\* the destinations SOCKS5 clients ask for
SocksDests == { <<Domain(<<"a", ".", "b">>), 80>>, <<Ipv4(<<10, 0, 0, 2>>), 22>> }

Listening == tunnel.local_protocol.kind \in {"Tcp", "Udp", "Socks5"}

\* a flow of the stream: the connection and the destination paired with it
Flow(conn, dest) == Ok([conn |-> conn, dest |-> dest])

\* the destinations the adapter of the tunnel pairs a connection with: the
\* tunnel's remote (map_ok with remote.clone()), or what the SOCKS5 client asked
AdapterDests ==
    IF tunnel.local_protocol.kind = "Socks5" THEN SocksDests ELSE {tunnel.remote}

\* stream::once(async move { Ok((server, tunnel.remote)) }), given twice
StdioStream_Twice(t) == <<Flow(1, t.remote), Flow(2, t.remote)>>

\* stream::once(async move { Ok((server, tunnel.remote)) })
StdioStream(t) == <<Flow(1, t.remote)>>

Init ==
    /\ tunnel \in TunnelConfigs
    /\ incoming = <<>> /\ polled = <<>> /\ tasks = <<>>
    /\ loop = "init"
    /\ arg = Idle /\ argIn = Idle /\ argBind = Idle /\ argRes = Idle
    /\ url = Idle /\ cli = Idle /\ urlRes = Idle /\ config = Idle /\ sni = Idle

\* main: the adapter's server starts and run_tunnel is spawned on its stream
StartTunnel ==
    /\ loop = "init"
    /\ loop' = "polling"
    /\ incoming' = IF tunnel.local_protocol.kind = "Stdio" THEN StdioStream(tunnel)
                   ELSE <<>>
    /\ UNCHANGED <<tunnel, polled, tasks, argVars, cfgVars>>

\* main: run_server fails (the bind address is taken) and main panics
StartFails ==
    /\ loop = "init"
    /\ loop' = "panicked"
    /\ UNCHANGED <<tunnel, incoming, polled, tasks, argVars, cfgVars>>

Yielded == Len(polled) + Len(incoming)

\* the adapter has a new flow ready: an accepted connection (a UDP peer, a
\* negotiated SOCKS5 request) and its destination
AdapterAccepts ==
    /\ loop = "polling" /\ Listening /\ Yielded < MaxFlows
    /\ \E d \in AdapterDests : incoming' = Append(incoming, Flow(Yielded + 1, d))
    /\ UNCHANGED <<tunnel, polled, loop, tasks, argVars, cfgVars>>

\* the adapter has an error ready: a failed accept or SOCKS5 negotiation
AdapterFails ==
    /\ loop = "polling" /\ Listening /\ Yielded < MaxFlows
    /\ incoming' = Append(incoming, Err("accept"))
    /\ UNCHANGED <<tunnel, polled, loop, tasks, argVars, cfgVars>>

\* Task, the remote of the cloned tunnel left as configured
Task_RemoteKept(f) ==
    [request_id |-> f.conn, cnx_stream |-> f.conn,
     tunnel |-> tunnel,
     st |-> "spawned", calls |-> 0]

\* the orchestration task run_tunnel spawns for a flow: the tunnel cloned,
\* its remote set to the flow's destination
Task(f) ==
    [request_id |-> f.conn, cnx_stream |-> f.conn,
     tunnel |-> [tunnel EXCEPT !.remote = f.dest],
     st |-> "spawned", calls |-> 0]

Finished(t) == t.st \in {"done", "failed"}

\* PollOk, awaiting the flow's connect_to_server instead of spawning it:
\* the next flow is taken only when the tasks before it have ended
PollOk_Awaiting ==
    /\ loop = "polling" /\ incoming # <<>> /\ Head(incoming).tag = "Ok"
    /\ \A i \in DOMAIN tasks : Finished(tasks[i])
    /\ tasks' = Append(tasks, Task(Head(incoming).val))
    /\ polled' = Append(polled, Head(incoming))
    /\ incoming' = Tail(incoming)
    /\ UNCHANGED <<tunnel, loop, argVars, cfgVars>>

\* run_tunnel: incoming_cnx.next() is Some(Ok(..)): the loop body spawns the
\* flow's task and the loop goes on
PollOk ==
    /\ loop = "polling" /\ incoming # <<>> /\ Head(incoming).tag = "Ok"
    /\ tasks' = Append(tasks, Task(Head(incoming).val))
    /\ polled' = Append(polled, Head(incoming))
    /\ incoming' = Tail(incoming)
    /\ UNCHANGED <<tunnel, loop, argVars, cfgVars>>

\* run_tunnel: next() is Some(Err(..)): the while let pattern does not match,
\* the loop ends and run_tunnel returns Ok(()); the stream is dropped with
\* what it had ready
PollErr ==
    /\ loop = "polling" /\ incoming # <<>> /\ Head(incoming).tag = "Err"
    /\ loop' = "returned"
    /\ polled' = Append(polled, Head(incoming))
    /\ incoming' = Tail(incoming)
    /\ UNCHANGED <<tunnel, tasks, argVars, cfgVars>>

\* run_tunnel: next() is None (the once stream of a Stdio tunnel is used up)
PollNone ==
    /\ loop = "polling" /\ incoming = <<>> /\ ~Listening
    /\ loop' = "returned"
    /\ UNCHANGED <<tunnel, incoming, polled, tasks, argVars, cfgVars>>

SetTask(i, st, calls) ==
    tasks' = [tasks EXCEPT ![i] = [@ EXCEPT !.st = st, !.calls = calls]]

\* the runtime runs a spawned task: it calls connect_to_server
TaskStart(i) ==
    /\ i \in DOMAIN tasks /\ tasks[i].st = "spawned"
    /\ SetTask(i, "running", tasks[i].calls + 1)
    /\ UNCHANGED <<tunnel, incoming, polled, loop, argVars, cfgVars>>

\* ConnectFails, the error returned to run_tunnel with `?` and ending it
ConnectFails_Propagated(i) ==
    /\ i \in DOMAIN tasks /\ tasks[i].st = "running"
    /\ SetTask(i, "failed", tasks[i].calls)
    /\ loop' = "returned"
    /\ UNCHANGED <<tunnel, incoming, polled, argVars, cfgVars>>

\* connect_to_server returns Err: the task logs it and ends
ConnectFails(i) ==
    /\ i \in DOMAIN tasks /\ tasks[i].st = "running"
    /\ SetTask(i, "failed", tasks[i].calls)
    /\ UNCHANGED <<tunnel, incoming, polled, loop, argVars, cfgVars>>

\* connect_to_server returns Ok: the flow is over
ConnectReturns(i) ==
    /\ i \in DOMAIN tasks /\ tasks[i].st = "running"
    /\ SetTask(i, "done", tasks[i].calls)
    /\ UNCHANGED <<tunnel, incoming, polled, loop, argVars, cfgVars>>

Next ==
    \/ StartTunnel
    \/ StartFails
    \/ AdapterAccepts
    \/ AdapterFails
    \/ PollOk
    \/ PollErr
    \/ PollNone
    \/ \E i \in 1..MaxFlows : TaskStart(i)
    \/ \E i \in 1..MaxFlows : ConnectFails(i)
    \/ \E i \in 1..MaxFlows : ConnectReturns(i)

Spec == Init /\ [][Next]_vars

\* the runtime polls run_tunnel when the stream has an item and runs every
\* spawned task; whether connect_to_server ever returns is left open
FairSpec ==
    /\ Spec
    /\ WF_vars(StartTunnel \/ StartFails)
    /\ WF_vars(PollOk) /\ WF_vars(PollErr) /\ WF_vars(PollNone)
    /\ \A i \in 1..MaxFlows : WF_vars(TaskStart(i))

---------------------------------------------------------------------------
(* The claims about run_tunnel (Spec, FairSpec)                            *)

ErrPolled == \E n \in DOMAIN polled : polled[n].tag = "Err"

\* the flows run_tunnel took from the stream, in order
RECURSIVE FlowsOf(_)
FlowsOf(items) ==
    IF items = <<>> THEN <<>>
    ELSE IF Head(items).tag = "Ok" THEN <<Head(items).val>> \o FlowsOf(Tail(items))
    ELSE FlowsOf(Tail(items))

\* a step in which connect_to_server fails for flow i
FailureOf(i) ==
    /\ i \in DOMAIN tasks /\ tasks[i].st = "running"
    /\ i \in DOMAIN tasks' /\ tasks'[i].st = "failed"

\* flow i failed, or connect_to_server does not return for it
Stuck(i) == i \in DOMAIN tasks /\ tasks[i].st \in {"running", "failed"}

\* C1: a failure of connect_to_server for one flow ends that flow only. The
\* step in which flow i fails leaves run_tunnel's loop, the stream and every
\* other task as they were; run_tunnel has returned only if the stream gave
\* an Err or ended (never because of a task); and, the runtime being fair,
\* every flow the stream yields to run_tunnel, also after a flow failed or
\* while one never returns, is handed to connect_to_server, and every item
\* the stream has ready is taken by run_tunnel.
C1_FailureEndsFlowOnly ==
    /\ [][\A i \in 1..MaxFlows : FailureOf(i) =>
            /\ loop' = loop /\ incoming' = incoming /\ polled' = polled
            /\ \A j \in DOMAIN tasks : j # i => tasks'[j] = tasks[j]]_vars
    /\ [](loop = "returned" => (ErrPolled \/ (~Listening /\ incoming = <<>>)))
    /\ \A k \in 1..MaxFlows : \A n \in 1..MaxFlows :
          (Stuck(k) /\ n > k /\ n \in DOMAIN tasks)
              ~> (n \in DOMAIN tasks /\ tasks[n].calls = 1)
    /\ \A k \in 1..MaxFlows : \A m \in 0..MaxFlows :
          (Stuck(k) /\ loop = "polling" /\ incoming # <<>> /\ Len(polled) = m)
              ~> (Len(polled) > m)

\* flow 1 failed, flow 2 never returns, and flow 3, yielded after both, was
\* handed to connect_to_server by a run_tunnel that is still polling
C1_Witness ==
    /\ loop = "polling" /\ Len(tasks) = 3
    /\ tasks[1].st = "failed" /\ tasks[2].st = "running"
    /\ tasks[3].calls = 1

\* C2: an Err item of the stream does not end the listener: once run_tunnel
\* has taken an Err item it is still polling the stream.
C2_ErrKeepsListener ==
    ErrPolled => loop = "polling"

\* C3: every Ok item run_tunnel took has exactly one task of its own, in
\* order, holding that flow's connection and a tunnel whose remote is that
\* flow's destination; a task has called connect_to_server once as soon as
\* it runs and never again; and run_tunnel takes the next ready flow
\* whatever the state of the tasks before it.
C3_OneTaskPerFlow ==
    /\ Len(tasks) = Len(FlowsOf(polled))
    /\ \A i \in DOMAIN tasks :
          /\ tasks[i].cnx_stream = FlowsOf(polled)[i].conn
          /\ tasks[i].tunnel = [tunnel EXCEPT !.remote = FlowsOf(polled)[i].dest]
          /\ tasks[i].calls = IF tasks[i].st = "spawned" THEN 0 ELSE 1
          /\ \A j \in DOMAIN tasks : j # i => tasks[j].cnx_stream # tasks[i].cnx_stream
    /\ (loop = "polling" /\ incoming # <<>> /\ Head(incoming).tag = "Ok")
          => ENABLED PollOk

\* a flow accepted later has started, run and finished while the flow
\* accepted before it is still running
C3_Witness ==
    /\ Len(tasks) >= 2
    /\ tasks[1].st = "running" /\ tasks[2].st = "done"

StdioTunnel == tunnel.local_protocol.kind = "Stdio"

\* C4: a Stdio tunnel has at most one flow, its task's tunnel is the
\* configured one (remote included), and connect_to_server is called at most
\* once; a run_tunnel that returned has handed that one flow off and the
\* stream has nothing more; and, the runtime being fair, a started Stdio
\* tunnel reaches the state where run_tunnel has returned and
\* connect_to_server has been called exactly once.
C4_StdioOneFlow ==
    /\ [](StdioTunnel =>
            /\ Len(tasks) <= 1 /\ Len(polled) <= 1
            /\ \A i \in DOMAIN tasks :
                  tasks[i].tunnel = tunnel /\ tasks[i].calls <= 1
            /\ loop = "returned" =>
                  (Len(tasks) = 1 /\ incoming = <<>> /\ ~ErrPolled))
    /\ (StdioTunnel /\ loop = "polling") ~>
          (loop = "returned" /\ Len(tasks) = 1 /\ tasks[1].calls = 1)

\* the Stdio flow was handed off, connect_to_server was called and the loop
\* has ended
C4_Witness ==
    /\ StdioTunnel /\ loop = "returned"
    /\ Len(tasks) = 1 /\ tasks[1].calls = 1 /\ tasks[1].st = "running"

\* C12: the configured tunnel is never changed, and a task's tunnel is never
\* changed once spawned; the tunnel a flow's task passes to connect_to_server
\* equals the configured one in socket_so_mark, local_protocol and local, and
\* its remote is the destination the stream yielded with that flow; for a Tcp
\* or Udp tunnel every flow's destination is the configured remote; and the
\* destination of one flow is the remote of another flow's tunnel only if
\* that flow was yielded with the same destination.
C12_TunnelClonedPerFlow ==
    /\ [][tunnel' = tunnel]_vars
    /\ [][\A i \in DOMAIN tasks :
            i \in DOMAIN tasks' /\ tasks'[i].tunnel = tasks[i].tunnel]_vars
    /\ [](\A i \in DOMAIN tasks :
            /\ tasks[i].tunnel.socket_so_mark = tunnel.socket_so_mark
            /\ tasks[i].tunnel.local_protocol = tunnel.local_protocol
            /\ tasks[i].tunnel.local = tunnel.local
            /\ tasks[i].tunnel.remote = FlowsOf(polled)[i].dest
            /\ tunnel.local_protocol.kind \in {"Tcp", "Udp"} =>
                  FlowsOf(polled)[i].dest = tunnel.remote
            /\ \A j \in DOMAIN tasks :
                  FlowsOf(polled)[j].dest # FlowsOf(polled)[i].dest =>
                      tasks[i].tunnel.remote # FlowsOf(polled)[j].dest)

\* two SOCKS5 flows with different destinations have called
\* connect_to_server and run at the same time, each with its own remote,
\* none of them the configured one
C12_Witness ==
    /\ tunnel.local_protocol.kind = "Socks5" /\ Len(tasks) >= 2
    /\ tasks[1].st = "running" /\ tasks[2].st = "running"
    /\ tasks[1].tunnel.remote # tasks[2].tunnel.remote
    /\ tasks[1].tunnel.remote # tunnel.remote
    /\ tasks[2].tunnel.remote # tunnel.remote

ClientConfigBuilt == config # Pending /\ config # Panic /\ config.kind = "WsClientConfig"
ServerConfigBuilt == config # Pending /\ config # Panic /\ config.kind = "WsServerConfig"

\* C5: a server address is accepted only when its scheme is ws or wss (in
\* any letter case), and a client configuration built from it has TLS
\* settings exactly when the scheme is wss and none exactly when it is ws, so
\* websocket_scheme gives the URL's scheme back; no construction panics on the
\* scheme.
C5_TlsIffWss ==
    /\ urlRes.tag = "Ok" =>
          /\ cli.url.scheme.name \in {T_ws, T_wss}
          /\ urlRes.val.scheme = cli.url.scheme.name
    /\ (urlRes.tag = "Err" /\ cli.url.scheme.name \in {T_ws, T_wss}) =>
          (cli.url.host.host = None \/ cli.url.port = Some(65536))
    /\ (cli.cmd = "client" /\ config # Pending) =>
          /\ config # Panic
          /\ (config.tls # None) <=> (cli.url.scheme.name = T_wss)
          /\ (config.tls = None) <=> (cli.url.scheme.name = T_ws)
          /\ websocket_scheme(config) = cli.url.scheme.name

\* C5's case: a client configuration with TLS settings built from WSS://...
C5_Witness ==
    /\ ClientConfigBuilt
    /\ cli.url.scheme.text = <<"W", "S", "S">>
    /\ config.tls # None
    /\ websocket_scheme(config) = T_wss

\* C9: the server name tls_server_name returns is the SNI override when the
\* configuration has one, whatever the host; else the host's domain name
\* when the host is a domain; else the host's IP address.
C9_ServerName ==
    sni # Pending =>
        sni = IF SniOverrideOf(config) # None
              THEN DnsNameOf(cli.tls_sni_override.val)
              ELSE IF cli.url.host.host.kind = "Domain"
              THEN DnsNameOf(cli.url.host.host.name)
              ELSE IpAddress([v |-> IF cli.url.host.host.kind = "Ipv4" THEN 4 ELSE 6,
                              a |-> cli.url.host.host.a])

\* C10: no configuration record has a port 0: the client's remote_addr, the
\* server's bind, and the remote of a parsed Tcp or Udp tunnel all have a port
\* in 1..65535.
C10_PortsInRange ==
    /\ ClientConfigBuilt => config.remote_addr[2] \in 1..65535
    /\ ServerConfigBuilt => config.bind.port \in 1..65535
    /\ (argRes.tag = "Ok" /\ argRes.val.local_protocol.kind \in {"Tcp", "Udp"}) =>
          argRes.val.remote[2] \in 1..65535

\* C11: the http_upgrade_path_prefix of every WsClientConfig built has no
\* slash in it, whatever value was given as --http-upgrade-path-prefix.
C11_PrefixNoSlash ==
    ClientConfigBuilt =>
        \A n \in DOMAIN config.http_upgrade_path_prefix :
            config.http_upgrade_path_prefix[n] # "/"

\* C6: for a udp:// argument that parses, the tunnel's timeout is 30 s when
\* timeout_sec is not given, None (no timeout) when timeout_sec=0, and N
\* seconds when timeout_sec=N for a u64 N > 0 (up to 2^64 - 1), whatever the
\* other options (socket_so_mark, an unknown option) are.
C6_UdpTimeout ==
    (argIn.form = "udp" /\ argRes.tag = "Ok") =>
        LET t == argRes.val.local_protocol.timeout
            w == argIn.opts.timeout
        IN  /\ argRes.val.local_protocol.kind = "Udp"
            /\ w.tag = "Absent" => t = Some(<<"3", "0">>)
            /\ (w.tag = "Num" /\ w.n = 0) => t = None
            /\ (w.tag = "Num" /\ w.n > 0) => t = Some(ToDecimal(w.n))
            /\ w.tag = "Big" => t = Some(w.text)

\* C6's case: udp://...?x=1&timeout_sec=2&socket_so_mark=2 parsed, timeout 2 s
C6_Witness ==
    /\ argIn.form = "udp" /\ argRes.tag = "Ok"
    /\ argIn.opts.timeout.tag = "Num" /\ argIn.opts.timeout.n = 2
    /\ argIn.opts.mark # None /\ argIn.opts.other
    /\ argRes.val.local_protocol = Udp(Some(<<"2">>))

\* C7: every socks5://[BIND:]PORT[?socket_so_mark=N] with a valid port is
\* accepted and yields a Socks5 tunnel bound to BIND:PORT, to 127.0.0.1:PORT
\* when no bind address is written, with the socket mark N when given.
C7_Socks5Accepted ==
    (/\ argIn.form = "socks5" /\ argIn.lport \in LocalPorts
     /\ ~argIn.opts.other /\ argRes # Pending) =>
        /\ argRes.tag = "Ok"
        /\ argRes.val.local_protocol = Socks5
        /\ argRes.val.local = SocketAddr(argIn.bind.ip, argIn.lport)
        /\ argRes.val.socket_so_mark = argIn.opts.mark

\* the bind/port text written after socks5://
Socks5Text(i) == i.bind.text \o ToDecimal(i.lport) \o OptText(i.opts)

\* a text whose first 8 characters are "socks5:/" and that has a 9th
Socks5Like(a) == Len(a) >= Socks5Offset /\ SubSeq(a, 1, 8) = T_socks5

\* C13 (as amended): the offset 9 at which the socks5 branch cuts is the
\* length of "socks5://", so parse_local_bind receives the whole bind/port
\* text written after the scheme, first character included, and a socks5
\* argument with a bind address and a valid port yields exactly that address
\* and port; it is the 9th character of the argument that is dropped, without
\* being compared with '/', so any character in its place parses as '/' does.
C13_WholeTextReceived ==
    /\ (argIn.form = "socks5" /\ argRes # Pending) =>
          /\ Len(T_socks5 \o <<"/">>) = Socks5Offset
          /\ argBind = parse_local_bind(Socks5Text(argIn))
          /\ (argIn.bind.kind # "none" /\ argIn.lport \in LocalPorts) =>
                /\ argRes.tag = "Ok"
                /\ argRes.val.local = SocketAddr(argIn.bind.ip, argIn.lport)
    /\ (argIn.form = "raw" /\ Socks5Like(arg) /\ argRes # Pending) =>
          argRes = parse_tunnel_arg(T_socks5 \o <<"/">>
                                    \o SubSeq(arg, Socks5Offset + 1, Len(arg)))

\* socks5://10.0.0.2:1212 parsed: the bind address keeps its first character
C13_Witness ==
    /\ argIn.form = "socks5" /\ argIn.bind.kind = "v4" /\ argIn.lport = 1212
    /\ argBind.tag = "Ok" /\ argRes.tag = "Ok"
    /\ argRes.val.local = SocketAddr(V4(<<10, 0, 0, 2>>), 1212)

\* C13 (as stated): the first character of the bind/port text written after
\* the scheme is skipped: parse_local_bind receives that text without it.
C13_FirstCharSkipped ==
    (argIn.form = "socks5" /\ argRes # Pending) =>
        argBind = parse_local_bind(Tail(Socks5Text(argIn)))

\* C14: parse_tunnel_arg is total: for every argument, short ones and ones
\* of no known scheme included, it returns a LocalToRemote or an error value
\* and never panics.
C14_ParseTotal ==
    argRes # Pending => argRes.tag \in {"Ok", "Err"}

=============================================================================
